---- MODULE Spec2Model ----
(***************************************************************************)
(* A model of src/sudoku.py: the class Sudoku (a flat list of one-element  *)
(* boxes, with row, column and block lists that reference the same boxes)  *)
(* and the loader load_from_file.                                          *)
(*                                                                         *)
(* The one-element lists are boxes: box maps the identity of a box to its  *)
(* content, and grid (the list _grid), rows, columns and blocks hold box   *)
(* identities, as the lists of the program hold references.                *)
(***************************************************************************)
EXTENDS Integers, Sequences, FiniteSets, TLC

VARIABLES pc, input, box, grid, rows, columns, blocks, last, ops

vars == <<pc, input, box, grid, rows, columns, blocks, last, ops>>

(***************************************************************************)
(* Program constants and the bound of the model.                           *)
(***************************************************************************)
N == 9

Digits == 1..9

\* The number of place/unplace calls a behaviour makes after construction.
MaxOps == 2

(***************************************************************************)
(* Python primitives.                                                      *)
(***************************************************************************)
\* list[i]: a negative index counts from the end, anything else outside
\* the list raises IndexError.
IndexRaises(i, n) == i >= n \/ i < 0 - n

PyIndex(i, n) == IF i < 0 THEN i + n ELSE i

\* int(element) on the tokens the inputs below are made of.
IntTable ==
    [t \in {"0","1","2","3","4","5","6","7","8","9","10","-1"} |->
        CASE t = "0" -> 0 [] t = "1" -> 1 [] t = "2" -> 2 [] t = "3" -> 3
          [] t = "4" -> 4 [] t = "5" -> 5 [] t = "6" -> 6 [] t = "7" -> 7
          [] t = "8" -> 8 [] t = "9" -> 9 [] t = "10" -> 10 [] t = "-1" -> 0 - 1]

IntRaises(t) == t \notin DOMAIN IntTable

int(t) == IntTable[t]

Whitespace == {" ", "\n"}

RECURSIVE lstrip(_)
lstrip(s) ==
    IF s # <<>> /\ Head(s) \in Whitespace THEN lstrip(Tail(s)) ELSE s

RECURSIVE rstrip(_)
rstrip(s) ==
    IF s # <<>> /\ s[Len(s)] \in Whitespace
    THEN rstrip(SubSeq(s, 1, Len(s) - 1))
    ELSE s

strip(s) == rstrip(lstrip(s))

\* str.replace(",", "")
RECURSIVE remove_commas(_)
remove_commas(s) ==
    IF s = <<>> THEN <<>>
    ELSE IF Head(s) = "," THEN remove_commas(Tail(s))
    ELSE <<Head(s)>> \o remove_commas(Tail(s))

\* The elements of a puzzle in the order the two loops of __init__ meet them.
RECURSIVE Flatten(_)
Flatten(p) == IF p = <<>> THEN <<>> ELSE Head(p) \o Flatten(Tail(p))

(***************************************************************************)
(* Inputs of the constructor and of the loader.                            *)
(***************************************************************************)
SolvedPuzzle ==
    << <<"5","3","4","6","7","8","9","1","2">>,
       <<"6","7","2","1","9","5","3","4","8">>,
       <<"1","9","8","3","4","2","5","6","7">>,
       <<"8","5","9","7","6","1","4","2","3">>,
       <<"4","2","6","8","5","3","7","9","1">>,
       <<"7","1","3","9","2","4","8","5","6">>,
       <<"9","6","1","5","3","7","2","8","4">>,
       <<"2","8","7","4","1","9","6","3","5">>,
       <<"3","4","5","2","8","6","1","7","9">> >>

OpenPuzzle ==
    << <<"5","3","4","6","0","8","9","1","2">>,
       <<"6","7","2","1","9","5","3","0","8">>,
       <<"1","9","8","3","4","2","5","6","7">>,
       <<"0","5","9","7","6","1","4","2","3">>,
       <<"4","2","6","8","0","3","7","9","1">>,
       <<"7","1","3","9","2","0","8","5","6">>,
       <<"9","6","1","5","3","7","2","8","4">>,
       <<"2","8","7","4","1","9","6","3","5">>,
       <<"3","4","5","2","8","6","1","7","0">> >>

EmptyPuzzle == [r \in 1..9 |-> [c \in 1..9 |-> "0"]]

\* Complete, but with two 3s in the first row and in the first block.
DuplicatePuzzle ==
    [SolvedPuzzle EXCEPT ![1] = [SolvedPuzzle[1] EXCEPT ![1] = "3"]]

\* Ten rows, eight rows, and nine rows of 10, 8, 9, ..., 9 elements.
TenRowPuzzle == Append(SolvedPuzzle, SolvedPuzzle[1])

EightRowPuzzle == SubSeq(SolvedPuzzle, 1, 8)

RaggedPuzzle ==
    [SolvedPuzzle EXCEPT ![1] = Append(SolvedPuzzle[1], "6"),
                         ![2] = Tail(SolvedPuzzle[2])]

\* An element int() rejects, and an element it accepts outside 0..9.
LetterPuzzle ==
    [SolvedPuzzle EXCEPT ![5] = [SolvedPuzzle[5] EXCEPT ![5] = "x"]]

TenPuzzle ==
    [SolvedPuzzle EXCEPT ![9] = [SolvedPuzzle[9] EXCEPT ![9] = "10"]]

Puzzles ==
    << SolvedPuzzle, OpenPuzzle, EmptyPuzzle, DuplicatePuzzle, TenRowPuzzle,
       EightRowPuzzle, RaggedPuzzle, LetterPuzzle, TenPuzzle >>

\* The text of a file, line by line as iterating over the file yields it.
RECURSIVE CommaLine(_)
CommaLine(r) ==
    IF Len(r) <= 1 THEN r \o <<"\n">>
    ELSE <<Head(r), ",">> \o CommaLine(Tail(r))

CommaFile == [i \in 1..9 |-> CommaLine(OpenPuzzle[i])]

PlainFile == [i \in 1..9 |-> SolvedPuzzle[i] \o <<"\n">>]

\* An empty tenth line, and a space between two digits of the third line.
TrailingLineFile == Append(PlainFile, <<"\n">>)

SpacedFile == [PlainFile EXCEPT ![3] = <<"1"," ","9">> \o Tail(PlainFile[3])]

Files == << CommaFile, TrailingLineFile, SpacedFile >>

(***************************************************************************)
(* Sudoku.__init__                                                         *)
(***************************************************************************)
\* The first loop: one new box per element, in row-major order of the
\* input, holding int(element); _grid lists the boxes in that order.
BuildBox(p) ==
    LET e == Flatten(p)
    IN  [b \in 0..(Len(e) - 1) |-> int(e[b + 1])]

BuildGrid(p) == [k \in 0..(Len(Flatten(p)) - 1) |-> k]

BuildRows(g) == [y \in 0..(N - 1) |-> [x \in 0..(N - 1) |-> g[x + 9 * y]]]

BuildColumns(g) == [x \in 0..(N - 1) |-> [y \in 0..(N - 1) |-> g[x + 9 * y]]]

\* BuildBlocks with i % 3 and i // 3 exchanged.
BuildBlocksSwapped(g) ==
    [i \in 0..(N - 1) |->
        LET x_start == (i \div 3) * 3
            y_start == (i % 3) * 3
        IN  [k \in 0..(N - 1) |-> g[(x_start + (k \div 3)) + 9 * (y_start + (k % 3))]]]

\* Block i starts at x_start, y_start; x is the outer loop, y the inner one.
BuildBlocks(g) ==
    [i \in 0..(N - 1) |->
        LET x_start == (i % 3) * 3
            y_start == (i \div 3) * 3
        IN  [k \in 0..(N - 1) |-> g[(x_start + (k \div 3)) + 9 * (y_start + (k % 3))]]]

\* What the constructor raises on puzzle p, "none" when it returns:
\* int() fails in the first loop, _grid[x + 9 * y] fails in the later ones.
InitRaises(p) ==
    LET e == Flatten(p)
    IN  IF \E k \in 1..Len(e) : IntRaises(e[k]) THEN "ValueError"
        ELSE IF Len(e) < 81 THEN "IndexError"
        ELSE "none"

\* old is the content the written box had before a place or unplace; the
\* program does not keep it, the statements about place do.
Call(name, arguments, error, result) ==
    [op |-> name, args |-> arguments, raised |-> error, ret |-> result, old |-> 0 - 1]

Construct(p, tag) ==
    /\ pc = "new"
    /\ input' = tag
    /\ last' = Call("__init__", <<>>, InitRaises(p), "None")
    /\ IF InitRaises(p) = "none"
       THEN /\ pc' = "ready"
            /\ box' = BuildBox(p)
            /\ grid' = BuildGrid(p)
            /\ rows' = BuildRows(BuildGrid(p))
            /\ columns' = BuildColumns(BuildGrid(p))
            /\ blocks' = BuildBlocks(BuildGrid(p))
       ELSE /\ pc' = "failed"
            /\ UNCHANGED <<box, grid, rows, columns, blocks>>
    /\ UNCHANGED ops

New(i) == Construct(Puzzles[i], <<"puzzle", i>>)

(***************************************************************************)
(* load_from_file                                                          *)
(***************************************************************************)
ReadPuzzle(f) == [i \in 1..Len(f) |-> remove_commas(strip(f[i]))]

load_from_file(i) == Construct(ReadPuzzle(Files[i]), <<"file", i>>)

\* The puzzle a constructed (or rejected) grid was given.
GivenPuzzle ==
    IF input[1] = "puzzle" THEN Puzzles[input[2]] ELSE ReadPuzzle(Files[input[2]])

(***************************************************************************)
(* Mutators.                                                               *)
(***************************************************************************)
\* len(self._grid)
Length == Cardinality(DOMAIN grid)

Write(name, arguments, index, value) ==
    /\ pc = "ready"
    /\ ops < MaxOps
    /\ ops' = ops + 1
    /\ IF IndexRaises(index, Length)
       THEN /\ last' = Call(name, arguments, "IndexError", "None")
            /\ UNCHANGED box
       ELSE /\ box' = [box EXCEPT ![grid[PyIndex(index, Length)]] = value]
            /\ last' = [Call(name, arguments, "none", "None")
                            EXCEPT !.old = box[grid[PyIndex(index, Length)]]]
    /\ UNCHANGED <<pc, input, grid, rows, columns, blocks>>

\* place written as self._grid[x + 9 * y] = [value]: a new box is put in
\* _grid, the rows, columns and blocks keep the old one.
PlaceRebinds(value, x, y) ==
    /\ pc = "ready"
    /\ ops < MaxOps
    /\ ops' = ops + 1
    /\ IF IndexRaises(x + 9 * y, Length)
       THEN /\ last' = Call("place", <<value, x, y>>, "IndexError", "None")
            /\ UNCHANGED <<box, grid>>
       ELSE /\ box' = (Cardinality(DOMAIN box) :> value) @@ box
            /\ grid' = [grid EXCEPT ![PyIndex(x + 9 * y, Length)] = Cardinality(DOMAIN box)]
            /\ last' = [Call("place", <<value, x, y>>, "none", "None")
                            EXCEPT !.old = box[grid[PyIndex(x + 9 * y, Length)]]]
    /\ UNCHANGED <<pc, input, rows, columns, blocks>>

place(value, x, y) == Write("place", <<value, x, y>>, x + 9 * y, value)

\* unplace with the index y + 9 * x.
UnplaceSwapped(x, y) == Write("unplace", <<x, y>>, y + 9 * x, 0)

unplace(x, y) == Write("unplace", <<x, y>>, x + 9 * y, 0)

(***************************************************************************)
(* Queries, as functions of the current grid.  GroupRaises and             *)
(* OptionsRaises tell when a query raises IndexError instead of returning. *)
(***************************************************************************)
\* set(values)
set(s) == { s[k] : k \in DOMAIN s }

\* sum(group, []): the contents of the boxes of a group, in the group's order.
Contents(group) == [k \in 1..N |-> box[group[k - 1]]]

\* value_at with the bound x <= 9.
ValueAtInclusive(x, y) ==
    IF x <= 9 /\ y < 9 /\ x >= 0 /\ y >= 0 THEN box[grid[x + 9 * y]] ELSE 0 - 1

value_at(x, y) ==
    IF x < 9 /\ y < 9 /\ x >= 0 /\ y >= 0 THEN box[grid[x + 9 * y]] ELSE 0 - 1

\* self.rows[i], self.columns[i], self.blocks[i] raise as any list does.
GroupRaises(i) == IndexRaises(i, N)

row_values(i) == Contents(rows[PyIndex(i, N)])

column_values(i) == Contents(columns[PyIndex(i, N)])

block_values(i) == Contents(blocks[PyIndex(i, N)])

\* block_index_of with x and y exchanged.
BlockIndexSwapped(x, y) == (x \div 3) * 3 + (y \div 3)

block_index_of(x, y) == (y \div 3) * 3 + (x \div 3)

OptionsRaises(x, y) ==
    GroupRaises(y) \/ GroupRaises(x) \/ GroupRaises(block_index_of(x, y))

\* options_at without the block.
OptionsWithoutBlock(x, y) ==
    LET current_row == set(row_values(y))
        current_column == set(column_values(x))
    IN  Digits \ (current_row \cup current_column)

options_at(x, y) ==
    LET current_row == set(row_values(y))
        current_column == set(column_values(x))
        current_block == set(block_values(block_index_of(x, y)))
    IN  Digits \ (current_row \cup current_column \cup current_block)

\* The inner loop of next_empty_index on row y, from x on: the x of the
\* first empty cell, -1 when the loop ends without break.
RECURSIVE InnerLoop(_, _)
InnerLoop(x, y) ==
    IF x >= N THEN 0 - 1
    ELSE IF value_at(x, y) = 0 THEN x
    ELSE InnerLoop(x + 1, y)

\* The outer loop, from row y on: it ends at the first row whose inner
\* loop broke.
RECURSIVE OuterLoop(_)
OuterLoop(y) ==
    IF y >= N THEN <<0 - 1, 0 - 1>>
    ELSE IF InnerLoop(0, y) # 0 - 1 THEN <<InnerLoop(0, y), y>>
    ELSE OuterLoop(y + 1)

\* The scan with x as the outer loop and y as the inner one.
RECURSIVE InnerLoopDown(_, _)
InnerLoopDown(x, y) ==
    IF y >= N THEN 0 - 1
    ELSE IF value_at(x, y) = 0 THEN y
    ELSE InnerLoopDown(x, y + 1)

RECURSIVE OuterLoopAcross(_)
OuterLoopAcross(x) ==
    IF x >= N THEN <<0 - 1, 0 - 1>>
    ELSE IF InnerLoopDown(x, 0) # 0 - 1 THEN <<x, InnerLoopDown(x, 0)>>
    ELSE OuterLoopAcross(x + 1)

NextEmptyColumnMajor == OuterLoopAcross(0)

next_empty_index == OuterLoop(0)

\* is_solved testing the rows only.
RECURSIVE SolvedRowsFrom(_)
SolvedRowsFrom(i) ==
    IF i >= N THEN TRUE
    ELSE IF (Digits \ set(row_values(i))) # {} THEN FALSE
    ELSE SolvedRowsFrom(i + 1)

\* The loop of is_solved, from group i on.
RECURSIVE SolvedFrom(_)
SolvedFrom(i) ==
    IF i >= N THEN TRUE
    ELSE LET remainder_row == Digits \ set(row_values(i))
             remainder_column == Digits \ set(column_values(i))
             remainder_block == Digits \ set(block_values(i))
         IN  IF (remainder_row \cup remainder_column \cup remainder_block) # {}
             THEN FALSE
             ELSE SolvedFrom(i + 1)

is_solved == SolvedFrom(0)

(***************************************************************************)
(* Calls of the queries: the grid is read, the outcome is recorded.        *)
(***************************************************************************)
Returns(name, arguments, result) ==
    /\ pc = "ready"
    /\ last' = Call(name, arguments, "none", result)
    /\ UNCHANGED <<pc, input, box, grid, rows, columns, blocks, ops>>

Raises(name, arguments) ==
    /\ pc = "ready"
    /\ last' = Call(name, arguments, "IndexError", "None")
    /\ UNCHANGED <<pc, input, box, grid, rows, columns, blocks, ops>>

ValueAt(x, y) == Returns("value_at", <<x, y>>, value_at(x, y))

OptionsAt(x, y) ==
    IF OptionsRaises(x, y)
    THEN Raises("options_at", <<x, y>>)
    ELSE Returns("options_at", <<x, y>>, options_at(x, y))

NextEmptyIndex == Returns("next_empty_index", <<>>, next_empty_index)

RowValues(i) ==
    IF GroupRaises(i)
    THEN Raises("row_values", <<i>>)
    ELSE Returns("row_values", <<i>>, row_values(i))

ColumnValues(i) ==
    IF GroupRaises(i)
    THEN Raises("column_values", <<i>>)
    ELSE Returns("column_values", <<i>>, column_values(i))

BlockValues(i) ==
    IF GroupRaises(i)
    THEN Raises("block_values", <<i>>)
    ELSE Returns("block_values", <<i>>, block_values(i))

IsSolved == Returns("is_solved", <<>>, is_solved)

(***************************************************************************)
(* The specification.                                                      *)
(***************************************************************************)
PlaceValues == {5, 7, 9}

\* Coordinates of cells, coordinates one step outside the grid on each side.
Targets == { <<0, 0>>, <<4, 0>>, <<5, 1>>, <<0 - 1, 0>>, <<9, 0>>, <<0, 9>> }

Probes == { <<0, 0>>, <<4, 0>>, <<0 - 1, 0>>, <<9, 3>> }

Indices == { 0 - 1, 4, 9 }

Init ==
    /\ pc = "new"
    /\ input = <<"none", 0>>
    /\ box = <<>>
    /\ grid = <<>>
    /\ rows = <<>>
    /\ columns = <<>>
    /\ blocks = <<>>
    /\ last = Call("none", <<>>, "none", "None")
    /\ ops = 0

Next ==
    \/ \E i \in 1..Len(Puzzles) : New(i)
    \/ \E i \in 1..Len(Files) : load_from_file(i)
    \/ \E value \in PlaceValues, t \in Targets : place(value, t[1], t[2])
    \/ \E t \in Targets : unplace(t[1], t[2])
    \/ \E t \in Probes : ValueAt(t[1], t[2])
    \/ \E t \in Probes : OptionsAt(t[1], t[2])
    \/ NextEmptyIndex
    \/ \E i \in Indices : RowValues(i)
    \/ \E i \in Indices : ColumnValues(i)
    \/ \E i \in Indices : BlockValues(i)
    \/ IsSolved

Spec == Init /\ [][Next]_vars

(***************************************************************************)
(* Vocabulary of the statements below.                                     *)
(***************************************************************************)
Coordinates == 0..8

Cells == Coordinates \X Coordinates

InRange(x, y) == x \in Coordinates /\ y \in Coordinates

Mutators == {"place", "unplace"}

GroupQueries == {"row_values", "column_values", "block_values"}

Queries ==
    {"value_at", "options_at", "next_empty_index", "is_solved"} \cup GroupQueries

\* The state right after the constructor, a place or an unplace.  Only
\* these calls write a box, so every grid the program reaches is the grid
\* of such a state, and a statement about all cells of all reachable grids
\* is evaluated there.
AfterWrite == pc = "ready" /\ last.op \in Mutators \cup {"__init__"}

\* The coordinates a place or unplace call was given.
CallX == IF last.op = "place" THEN last.args[2] ELSE last.args[1]

CallY == IF last.op = "place" THEN last.args[3] ELSE last.args[2]

\* How often v stands in a sequence of values.
Count(values, v) == Cardinality({ k \in DOMAIN values : values[k] = v })

\* How often v stands in row y, in column x, in the 3x3 box of (x, y),
\* counted cell by cell.
InRow(v, y) == Cardinality({ c \in Cells : c[2] = y /\ value_at(c[1], c[2]) = v })

InColumn(v, x) == Cardinality({ c \in Cells : c[1] = x /\ value_at(c[1], c[2]) = v })

InBox(v, x, y) ==
    Cardinality({ c \in Cells : /\ c[1] \div 3 = x \div 3
                                /\ c[2] \div 3 = y \div 3
                                /\ value_at(c[1], c[2]) = v })

(***************************************************************************)
(* C1                                                                      *)
(***************************************************************************)
\* C1: after place(v, x, y) with x and y in 0..8, on any constructed grid
\* and after any earlier calls, value_at(x, y) is v and v stands in
\* row_values(y), column_values(x) and block_values(block_index_of(x, y)).
C1_ViewAliasing ==
    (last.op = "place" /\ last.raised = "none" /\ InRange(CallX, CallY)) =>
        LET v == last.args[1]
        IN  /\ value_at(CallX, CallY) = v
            /\ v \in set(row_values(CallY))
            /\ v \in set(column_values(CallX))
            /\ v \in set(block_values(block_index_of(CallX, CallY)))

\* A second call placed a value that the row already held elsewhere.
C1_Witness ==
    /\ last.op = "place"
    /\ last.raised = "none"
    /\ InRange(CallX, CallY)
    /\ ops >= 2
    /\ last.old # last.args[1]
    /\ Count(row_values(CallY), last.args[1]) >= 2

(***************************************************************************)
(* C2                                                                      *)
(***************************************************************************)
\* The digits that stand nowhere in row_values(y), column_values(x) and
\* block_values(block_index_of(x, y)).
Absent(x, y) ==
    LET r == row_values(y)
        c == column_values(x)
        b == block_values(block_index_of(x, y))
    IN  { d \in 1..9 : \A k \in 1..9 : r[k] # d /\ c[k] # d /\ b[k] # d }

\* C2: in every reachable grid and for every x, y in 0..8, options_at(x, y)
\* is exactly the set of the digits 1..9 that are in none of row_values(y),
\* column_values(x) and block_values(block_index_of(x, y)), and a call
\* returns that set.
C2_OptionsExact ==
    pc = "ready" =>
        /\ AfterWrite => \A c \in Cells : options_at(c[1], c[2]) = Absent(c[1], c[2])
        /\ (last.op = "options_at" /\ last.raised = "none"
                /\ InRange(last.args[1], last.args[2]))
             => last.ret = Absent(last.args[1], last.args[2])

\* A call, after some place or unplace, that returned some digits but not all.
C2_Witness ==
    /\ last.op = "options_at"
    /\ last.raised = "none"
    /\ InRange(last.args[1], last.args[2])
    /\ ops > 0
    /\ last.ret # {}
    /\ last.ret # Digits

(***************************************************************************)
(* C3                                                                      *)
(***************************************************************************)
\* C3: when place(v, x, y) writes an empty cell (x, y) a value v that
\* options_at(x, y) held before the call, v stands exactly once in row y,
\* once in column x and once in the 3x3 box of (x, y) after it.
C3_OptionMakesNoDuplicate ==
    [][ ( /\ pc = "ready"
          /\ ops' = ops + 1
          /\ last'.op = "place"
          /\ last'.raised = "none"
          /\ InRange(last'.args[2], last'.args[3])
          /\ value_at(last'.args[2], last'.args[3]) = 0
          /\ last'.args[1] \in options_at(last'.args[2], last'.args[3]) )
        => ( /\ InRow(last.args[1], last.args[3]) = 1
             /\ InColumn(last.args[1], last.args[2]) = 1
             /\ InBox(last.args[1], last.args[2], last.args[3]) = 1 )' ]_vars

\* A place that filled an empty cell with a value standing nowhere else in
\* the row, the column and the box, which is a value options_at held.
C3_Witness ==
    /\ last.op = "place"
    /\ last.raised = "none"
    /\ InRange(CallX, CallY)
    /\ last.old = 0
    /\ InRow(last.args[1], CallY) = 1
    /\ InColumn(last.args[1], CallX) = 1
    /\ InBox(last.args[1], CallX, CallY) = 1
    /\ \E c \in Cells : c # <<CallX, CallY>> /\ value_at(c[1], c[2]) = last.args[1]

(***************************************************************************)
(* C4                                                                      *)
(***************************************************************************)
AllGroupsComplete ==
    \A i \in 0..8 :
        /\ set(row_values(i)) = 1..9
        /\ set(column_values(i)) = 1..9
        /\ set(block_values(i)) = 1..9

SomeCellEmpty == \E c \in Cells : value_at(c[1], c[2]) = 0

\* Two places of a sequence of values hold the same digit.
Repeats(values) ==
    \E j, k \in DOMAIN values : j < k /\ values[j] = values[k] /\ values[j] \in 1..9

SomeDigitRepeated ==
    \E i \in 0..8 :
        Repeats(row_values(i)) \/ Repeats(column_values(i)) \/ Repeats(block_values(i))

\* C4: is_solved() is true exactly when the values of every row, column
\* and block, as a set, are 1..9; it is false when a cell is 0 or a digit
\* is repeated in a row, column or block.
C4_SolvedExact ==
    pc = "ready" =>
        /\ AfterWrite => (is_solved <=> AllGroupsComplete)
        /\ AfterWrite => ((SomeCellEmpty \/ SomeDigitRepeated) => ~is_solved)
        /\ last.op = "is_solved" => (last.ret <=> AllGroupsComplete)

\* A call that returned true after a cell was written twice or two cells
\* were written.
C4_Witness ==
    /\ last.op = "is_solved"
    /\ last.ret = TRUE
    /\ ops >= 2

(***************************************************************************)
(* C5                                                                      *)
(***************************************************************************)
EmptyCells == { c \in Cells : value_at(c[1], c[2]) = 0 }

\* The empty cell of the smallest y and, in that row, of the smallest x.
FirstEmpty ==
    IF EmptyCells = {} THEN <<0 - 1, 0 - 1>>
    ELSE CHOOSE c \in EmptyCells :
            \A d \in EmptyCells : c[2] < d[2] \/ (c[2] = d[2] /\ c[1] <= d[1])

\* C5: next_empty_index() is the first cell of value 0 in row-major order,
\* and (-1, -1) exactly when no cell is 0.
C5_FirstEmptyInReadingOrder ==
    pc = "ready" =>
        /\ AfterWrite => next_empty_index = FirstEmpty
        /\ AfterWrite => ((next_empty_index = <<0 - 1, 0 - 1>>) <=> (EmptyCells = {}))
        /\ (last.op = "next_empty_index") => (last.ret = FirstEmpty)

\* A call that returned a cell although an empty cell further down lies
\* further left.
C5_Witness ==
    /\ last.op = "next_empty_index"
    /\ last.ret \in EmptyCells
    /\ ops > 0
    /\ \E d \in EmptyCells : d[1] < last.ret[1] /\ d[2] > last.ret[2]

(***************************************************************************)
(* C6                                                                      *)
(***************************************************************************)
\* C6: a place or unplace with a coordinate outside 0..8, and a
\* row_values, column_values or block_values with an index outside 0..8,
\* raises and leaves every box as it was.
C6_OutOfBoundsRaises ==
    /\ (last.op \in Mutators /\ ~InRange(CallX, CallY))
          => (last.raised = "IndexError" /\ last.old = 0 - 1)
    /\ (last.op \in GroupQueries /\ last.args[1] \notin Coordinates)
          => last.raised = "IndexError"

(***************************************************************************)
(* C7                                                                      *)
(***************************************************************************)
\* C7: value_at(x, y) raises nothing and changes no box; it returns -1
\* when x or y is outside 0..8 and the value of the cell, the one its row
\* and its column hold at that place, when both are in 0..8.
C7_ValueAtSentinel ==
    [][ (pc = "ready" /\ last'.op = "value_at") =>
            /\ box' = box
            /\ grid' = grid
            /\ last'.raised = "none"
            /\ IF InRange(last'.args[1], last'.args[2])
               THEN /\ last'.ret = row_values(last'.args[2])[last'.args[1] + 1]
                    /\ last'.ret = column_values(last'.args[1])[last'.args[2] + 1]
               ELSE last'.ret = 0 - 1 ]_vars

\* A call with a coordinate outside 0..8 returned -1.
C7_Witness ==
    /\ last.op = "value_at"
    /\ last.raised = "none"
    /\ ~InRange(last.args[1], last.args[2])
    /\ last.ret = 0 - 1
    /\ ops > 0

(***************************************************************************)
(* C8                                                                      *)
(***************************************************************************)
\* Nine rows of nine elements, each of which int() turns into 0..9.
WellFormed(p) ==
    /\ Len(p) = 9
    /\ \A r \in 1..Len(p) :
          /\ Len(p[r]) = 9
          /\ \A k \in 1..Len(p[r]) : ~IntRaises(p[r][k]) /\ int(p[r][k]) \in 0..9

\* C8: the constructor fails, and makes no grid, on every input that has
\* not exactly 9 rows, or a row of not exactly 9 elements, or an element
\* that does not parse to an integer in 0..9.
C8_MalformedRejected ==
    (pc # "new" /\ ~WellFormed(GivenPuzzle)) =>
        (pc = "failed" /\ last.raised # "none")

(***************************************************************************)
(* C9                                                                      *)
(***************************************************************************)
\* The boxes of the cells whose block index is i.
BoxesOfBlock(i) ==
    { grid[c[1] + 9 * c[2]] : c \in { d \in Cells : block_index_of(d[1], d[2]) = i } }

\* C9: block i is made of exactly the 9 cells (x, y) of block_index_of(x,
\* y) = i, which is the 3x3 box at column-block i % 3 and row-block i // 3;
\* the nine blocks cover the 81 cells and no two share a cell, and
\* block_values(block_index_of(x, y)) holds the value of cell (x, y).
C9_BlockPartition ==
    AfterWrite =>
        /\ \A i \in 0..8 :
              /\ set(blocks[i]) = BoxesOfBlock(i)
              /\ Cardinality(set(blocks[i])) = 9
        /\ \A c \in Cells :
              /\ block_index_of(c[1], c[2]) \in 0..8
              /\ block_index_of(c[1], c[2]) % 3 = c[1] \div 3
              /\ block_index_of(c[1], c[2]) \div 3 = c[2] \div 3
              /\ value_at(c[1], c[2]) \in set(block_values(block_index_of(c[1], c[2])))
        /\ UNION { set(blocks[i]) : i \in 0..8 } = { grid[k] : k \in 0..80 }
        /\ \A i, j \in 0..8 : i # j => set(blocks[i]) \cap set(blocks[j]) = {}

\* A place changed a cell of a block that lies off the diagonal of blocks.
C9_Witness ==
    /\ last.op = "place"
    /\ last.raised = "none"
    /\ InRange(CallX, CallY)
    /\ last.old # last.args[1]
    /\ CallX \div 3 # CallY \div 3
    /\ last.args[1] \in set(block_values(block_index_of(CallX, CallY)))

(***************************************************************************)
(* C10                                                                     *)
(***************************************************************************)
\* Every place of a group that does not hold box b reads the same before
\* and after the step.
GroupKept(group, before, after, b) ==
    \A k \in 1..9 : group[k - 1] # b => after[k] = before[k]

\* Every cell but the one of box b reads the same before and after the
\* step, by value_at and in its row, its column and its block.
CellsKeptExcept(b) ==
    /\ \A c \in Cells :
          grid[c[1] + 9 * c[2]] # b => value_at(c[1], c[2])' = value_at(c[1], c[2])
    /\ \A i \in 0..8 :
          /\ GroupKept(rows[i], row_values(i), row_values(i)', b)
          /\ GroupKept(columns[i], column_values(i), column_values(i)', b)
          /\ GroupKept(blocks[i], block_values(i), block_values(i)', b)

\* C10: place(v, x, y) and unplace(x, y) with x and y in 0..8 change the
\* cell (x, y) only, whether read by value_at or in a row, column or
\* block, and value_at, options_at, next_empty_index and is_solved change
\* no cell: they leave every box, and the boxes the grid and its rows,
\* columns and blocks refer to, as they were.
C10_Frame ==
    [][ (pc = "ready" /\ last' # last) =>
            /\ (last'.op = "place" /\ InRange(last'.args[2], last'.args[3]))
                 => CellsKeptExcept(grid[last'.args[2] + 9 * last'.args[3]])
            /\ (last'.op = "unplace" /\ InRange(last'.args[1], last'.args[2]))
                 => CellsKeptExcept(grid[last'.args[1] + 9 * last'.args[2]])
            /\ last'.op \in Queries
                 => UNCHANGED <<box, grid, rows, columns, blocks>> ]_vars

\* An unplace emptied a cell that held a digit.
C10_Witness ==
    /\ last.op = "unplace"
    /\ last.raised = "none"
    /\ InRange(CallX, CallY)
    /\ last.old \in 1..9
    /\ value_at(CallX, CallY) = 0

====
